---- MODULE Spec2Model ----
(***************************************************************************)
(* A model of src/Shoreline/app.py, one run of the dashboard script from   *)
(* the upload to the rendered summary.                                     *)
(*                                                                         *)
(* Numbers.  Every float of the script is an exact rational here, a record *)
(* [n |-> numerator, d |-> denominator] in lowest terms with d > 0.  The   *)
(* one irrational step, the square root inside Series.std(), is evaluated  *)
(* to three decimals.  Dates are whole day numbers.                        *)
(***************************************************************************)
EXTENDS Integers, Sequences, FiniteSets, TLC

\* ------------------------------------------------------------------ bounds
\* Rows of a sheet whose cells may be invalid.
MaxRows == 3
\* Observations of the one beach of a sheet of valid rows.
MaxObs == 3
\* The net changes swept, in tenths of a metre either way.
NetSpan == 12

\* ------------------------------------------------------ program constants
\* len(beach_df) < 3
MinPoints == 3
\* .dt.days / 365.25, as 1461 / 4
YearDaysNum == 1461
YearDaysDen == 4
\* min(100, ...)
RiskCap == 100
\* abs(rate) * 30 + (1 - r2) * 20 + variability * 10 + consistency * 40
RateWeight == 30
FitWeight == 20
VariabilityWeight == 10
ConsistencyWeight == 40
\* row["Risk Index"] > 70, > 40
HighRisk == 70
ModerateRisk == 40

\* ---------------------------------------------------------------- numbers
Abs(x) == IF x < 0 THEN -x ELSE x

RECURSIVE GCD(_, _)
GCD(a, b) == IF b = 0 THEN a ELSE GCD(b, a % b)

Frac(n, d) ==
    LET s == IF d < 0 THEN -1 ELSE 1
        g == GCD(Abs(n), Abs(d))
    IN  [n |-> (s * n) \div g, d |-> (s * d) \div g]

Num(k) == [n |-> k, d |-> 1]
FAdd(a, b) == Frac(a.n * b.d + b.n * a.d, a.d * b.d)
FSub(a, b) == Frac(a.n * b.d - b.n * a.d, a.d * b.d)
FMul(a, b) == Frac(a.n * b.n, a.d * b.d)
FDiv(a, b) == Frac(a.n * b.d, a.d * b.n)
FAbs(a) == [n |-> Abs(a.n), d |-> a.d]
FLess(a, b) == a.n * b.d < b.n * a.d
FLeq(a, b) == a.n * b.d <= b.n * a.d
FMin(a, b) == IF FLess(b, a) THEN b ELSE a

RECURSIVE FSum(_)
FSum(s) == IF s = <<>> THEN Num(0) ELSE FAdd(Head(s), FSum(Tail(s)))

FMean(s) == FDiv(FSum(s), Num(Len(s)))

\* The integer nearest to a, an exact half going to the even neighbour.
RoundHalfEven(a) ==
    LET q == a.n \div a.d
        twice == 2 * (a.n - q * a.d)
    IN  IF twice < a.d THEN q
        ELSE IF twice > a.d THEN q + 1
        ELSE IF q % 2 = 0 THEN q ELSE q + 1

RECURSIVE Pow10(_)
Pow10(k) == IF k = 0 THEN 1 ELSE 10 * Pow10(k - 1)

\* round(a, k)
Round(a, k) == Frac(RoundHalfEven(FMul(a, Num(Pow10(k)))), Pow10(k))

RECURSIVE SqrtBetween(_, _, _)
SqrtBetween(n, lo, hi) ==
    IF hi - lo <= 1 THEN lo
    ELSE LET mid == (lo + hi) \div 2
         IN  IF mid * mid <= n THEN SqrtBetween(n, mid, hi)
             ELSE SqrtBetween(n, lo, mid)

\* The largest k with k * k <= n.
ISqrt(n) == SqrtBetween(n, 0, 46340)

\* The square root of a, cut to three decimals.
FSqrt(a) == Frac(ISqrt((a.n * 1000000) \div a.d), 1000)

\* ------------------------------------------------------------------ cells
\* A cell of the sheet: its kind, its text (if it is a string) and the value
\* it holds or spells.  "numtext" is a string such as "0.5" and "datetext" a
\* string such as "2004-01-01"; "text" is a string that spells neither.
Cell(k, s, x) == [k |-> k, s |-> s, x |-> x]
Null == Cell("null", "", Num(0))
Number(x) == Cell("number", "", x)
Datetime(day) == Cell("datetime", "", Num(day))
Text(s) == Cell("text", s, Num(0))
NumText(x) == Cell("numtext", "digits", x)
DateText(day) == Cell("datetext", "y-m-d", Num(day))
isna(c) == c.k = "null"

\* A column label with the blanks around it.
Label(text, lead, trail) == [text |-> text, lead |-> lead, trail |-> trail]
Col(text) == Label(text, 0, 0)

required_cols ==
    <<Col("Date"), Col("Beach"), Col("Shoreline_Position"), Col("Tide_Level")>>

Range(s) == {s[i] : i \in DOMAIN s}

\* ------------------------------------------------------- the sheets tried
Tenths(k) == Frac(k, 10)

RECURSIVE SeqsUpTo(_, _)
SeqsUpTo(S, n) ==
    IF n = 0 THEN {<<>>}
    ELSE LET shorter == SeqsUpTo(S, n - 1)
         IN  shorter \cup {Append(s, x) : s \in {t \in shorter : Len(t) = n - 1}, x \in S}

\* The order-preserving subsequences of s.
RECURSIVE SubSeqs(_)
SubSeqs(s) ==
    IF s = <<>> THEN {<<>>}
    ELSE LET rest == SubSeqs(Tail(s))
         IN  rest \cup {<<Head(s)>> \o t : t \in rest}

FullLayout == required_cols
NotesLayout == Append(required_cols, Col("Notes"))
PaddedLayout ==
    <<Label("Date", 1, 0), Label("Beach", 0, 1), Col("Shoreline_Position"),
      Col("Tide_Level"), Col("Notes")>>

SampleCell(text) ==
    CASE text = "Date" -> Datetime(0)
      [] text = "Beach" -> Text("A")
      [] text = "Shoreline_Position" -> Number(Num(10))
      [] text = "Tide_Level" -> Number(Num(2))
      [] OTHER -> Null

\* One sample row under every choice of the columns present, some padded.
HeaderSheets ==
    {[columns |-> c, rows |-> <<[i \in DOMAIN c |-> SampleCell(c[i].text)]>>] :
        c \in SubSeqs(PaddedLayout) \cup {FullLayout}}

\* Rows with a cell that coercion turns into a missing value, beside rows
\* that coercion keeps.
DirtyRows ==
    { <<Datetime(0), Text("A"), Number(Num(10)), Number(Num(2)), Text("calm")>>,
      <<DateText(1461), Text("A"), NumText(Tenths(94)), Number(Num(2)), Null>>,
      <<Datetime(2922), Text("B"), Number(Num(1)), NumText(Num(0)), Null>>,
      <<Text("last spring"), Text("A"), Number(Num(9)), Number(Num(2)), Null>>,
      <<Datetime(1461), Text("A"), Text("n/a"), Number(Num(2)), Null>>,
      <<Datetime(1461), Text("B"), Number(Num(9)), Text("high"), Null>>,
      <<Datetime(2922), Null, Number(Num(9)), Number(Num(2)), Text("?")>> }

DirtySheets ==
    {[columns |-> NotesLayout, rows |-> r] : r \in SeqsUpTo(DirtyRows, MaxRows)}

Dates == {0, 1461}
Positions == {Num(0), Tenths(5), Tenths(11)}
Tides == {Tenths(1)}

ObservationRows(b) ==
    {<<Datetime(d), Text(b), Number(p), Number(t)>> :
        d \in Dates, p \in Positions, t \in Tides}

\* Every series of one beach of MinPoints - 1 to MaxObs valid observations.
SeriesSheets ==
    {[columns |-> FullLayout, rows |-> r] :
        r \in {s \in SeqsUpTo(ObservationRows("A"), MaxObs) : Len(s) >= MinPoints - 1}}

\* n observations, latest first, moving by step tenths a period.
Steps == {-60, -6, 0, 3}
Stepped(b, step, n) ==
    [i \in 1..n |->
        <<Datetime((n - i) * YearDaysNum), Text(b),
          Number(Tenths(100 + (n - i) * step)), Number(Num(2))>>]

\* Two beaches, the second with too few observations or with enough.
PairSheets ==
    {[columns |-> FullLayout, rows |-> Stepped("B", sb, nb) \o Stepped("A", sa, MinPoints)] :
        sa \in Steps, sb \in Steps, nb \in {MinPoints - 1, MinPoints}}

\* One beach over three dates, its net change swept a tenth at a time.
SweepSheets ==
    {[columns |-> FullLayout,
      rows |-> <<<<Datetime(2 * YearDaysNum), Text("A"), Number(Tenths(25 + k)), Number(Tenths(5))>>,
                 <<Datetime(0), Text("A"), Number(Tenths(23)), Number(Tenths(3))>>,
                 <<Datetime(YearDaysNum), Text("A"), Number(Tenths(20 + m)), Number(Num(0))>>>>] :
        k \in -NetSpan..NetSpan, m \in {-3, 3}}

\* One beach over six dates, latest first, falling by 0.3 m or rising by
\* 0.2 m from each date to the next.
Turns == [1..5 -> {-3, 2}]
RECURSIVE Level(_, _)
Level(turn, i) == IF i = 0 THEN 50 ELSE Level(turn, i - 1) + turn[i]
ZigzagSheets ==
    {[columns |-> FullLayout,
      rows |-> [i \in 1..6 |->
                  <<Datetime((6 - i) * YearDaysNum), Text("A"),
                    Number(Tenths(Level(turn, 6 - i) + 5)), Number(Tenths(5))>>]] :
        turn \in Turns}

Sheets ==
    HeaderSheets \cup DirtySheets \cup SeriesSheets \cup PairSheets \cup SweepSheets
        \cup ZigzagSheets

Thresholds == {Num(-10), Num(0), Num(5)}

\* ----------------------------------------------------------------- pandas
\* df.columns.str.strip()
strip(label) == Col(label.text)

ColumnIndex(frame, c) == CHOOSE i \in DOMAIN frame.columns : frame.columns[i] = c
At(frame, row, c) == row[ColumnIndex(frame, c)]

\* pd.to_datetime(errors="coerce") of one cell of the Date column, which
\* holds a datetime, a string or nothing in the sheets tried.
to_datetime(c) ==
    CASE c.k = "datetime" -> c
      [] c.k = "datetext" -> Cell("datetime", "", c.x)
      [] OTHER -> Null

\* pd.to_numeric(errors="coerce") of one cell.
to_numeric(c) ==
    CASE c.k = "number" -> c
      [] c.k = "numtext" -> Number(c.x)
      [] OTHER -> Null

\* The three assignments df[c] = coercion(df[c]).
Coerce(frame) ==
    LET date == ColumnIndex(frame, Col("Date"))
        numeric == {ColumnIndex(frame, Col("Shoreline_Position")),
                    ColumnIndex(frame, Col("Tide_Level"))}
    IN  [frame EXCEPT !.rows =
            [r \in DOMAIN frame.rows |->
                [i \in DOMAIN frame.rows[r] |->
                    IF i = date THEN to_datetime(frame.rows[r][i])
                    ELSE IF i \in numeric THEN to_numeric(frame.rows[r][i])
                    ELSE frame.rows[r][i]]]]

\* dropna() without the subset: a row with any missing cell goes.
dropna_any(frame, cols) ==
    LET complete(row) == \A i \in DOMAIN row : ~isna(row[i])
    IN  [frame EXCEPT !.rows = SelectSeq(frame.rows, complete)]

\* df.dropna(subset=cols)
dropna(frame, cols) ==
    LET complete(row) == \A c \in Range(cols) : ~isna(At(frame, row, c))
    IN  [frame EXCEPT !.rows = SelectSeq(frame.rows, complete)]

\* ------------------------------------------------------- the beach series
\* The values of column c, top to bottom.
Values(frame, c) == [r \in DOMAIN frame.rows |-> At(frame, frame.rows[r], c).x]

\* df[df["Beach"] == beach]
OfBeach(frame, beach) ==
    LET same(row) == At(frame, row, Col("Beach")) = Text(beach)
    IN  [frame EXCEPT !.rows = SelectSeq(frame.rows, same)]

\* sort_values("Date"): the rows in date order.  The default sort is not a
\* stable one, so rows of one date come in any order.
sort_values(frame) ==
    LET n == Len(frame.rows)
        day(row) == At(frame, row, Col("Date")).x
        ordered(p) ==
            \A k \in 1..(n - 1) : FLeq(day(frame.rows[p[k]]), day(frame.rows[p[k + 1]]))
    IN  {[frame EXCEPT !.rows = [k \in 1..n |-> frame.rows[p[k]]]] :
            p \in {q \in Permutations(1..n) : ordered(q)}}

\* The tide level added instead of subtracted.
NormalizeAdding(frame) ==
    [columns |-> Append(frame.columns, Col("Normalized_Shoreline")),
     rows |-> [r \in DOMAIN frame.rows |->
                 Append(frame.rows[r],
                        Number(FAdd(At(frame, frame.rows[r], Col("Shoreline_Position")).x,
                                    At(frame, frame.rows[r], Col("Tide_Level")).x)))]]

\* beach_df["Normalized_Shoreline"] = beach_df["Shoreline_Position"] - beach_df["Tide_Level"]
Normalize(frame) ==
    [columns |-> Append(frame.columns, Col("Normalized_Shoreline")),
     rows |-> [r \in DOMAIN frame.rows |->
                 Append(frame.rows[r],
                        Number(FSub(At(frame, frame.rows[r], Col("Shoreline_Position")).x,
                                    At(frame, frame.rows[r], Col("Tide_Level")).x)))]]

RECURSIVE SeqMin(_)
SeqMin(s) == IF Len(s) = 1 THEN s[1] ELSE FMin(s[1], SeqMin(Tail(s)))

\* (beach_df["Date"] - beach_df["Date"].min()).dt.days / 365.25
ElapsedYears(frame) ==
    LET days == Values(frame, Col("Date"))
        first == SeqMin(days)
    IN  [k \in DOMAIN days |-> FDiv(FSub(days[k], first), Frac(YearDaysNum, YearDaysDen))]

\* linregress raises ValueError when all x values are identical.
AllIdentical(x) == \A k \in DOMAIN x : x[k] = x[1]

\* scipy.stats.linregress(x, y) for x not all identical: the slope, the
\* intercept and the square of the correlation coefficient r, which is 0
\* when y does not vary.
linregress(x, y) ==
    LET xmean == FMean(x)
        ymean == FMean(y)
        ssxm == FMean([k \in DOMAIN x |-> FMul(FSub(x[k], xmean), FSub(x[k], xmean))])
        ssym == FMean([k \in DOMAIN y |-> FMul(FSub(y[k], ymean), FSub(y[k], ymean))])
        ssxym == FMean([k \in DOMAIN x |-> FMul(FSub(x[k], xmean), FSub(y[k], ymean))])
        slope == FDiv(ssxym, ssxm)
    IN  [slope |-> slope,
         intercept |-> FSub(ymean, FMul(slope, xmean)),
         r_squared |-> IF ssym.n = 0 THEN Num(0)
                       ELSE FDiv(FMul(ssxym, ssxym), FMul(ssxm, ssym))]

\* Series.diff().dropna()
diff(y) == [k \in 1..(Len(y) - 1) |-> FSub(y[k + 1], y[k])]

\* (diffs < 0).mean()
NegativeShare(d) == Frac(Cardinality({k \in DOMAIN d : d[k].n < 0}), Len(d))

\* Series.std(), the sample standard deviation.
std(y) ==
    LET ymean == FMean(y)
        squares == FSum([k \in DOMAIN y |-> FMul(FSub(y[k], ymean), FSub(y[k], ymean))])
    IN  FSqrt(FDiv(squares, Num(Len(y) - 1)))

\* The table with 0.1 m left out of the stable band.
ClassifyStableBelowTenth(net) ==
    IF FLess(net, Num(-1)) THEN "Severe Erosion"
    ELSE IF FLeq(Num(-1), net) /\ FLess(net, Frac(-1, 2)) THEN "Moderate Erosion"
    ELSE IF FLeq(Frac(-1, 2), net) /\ FLess(net, Frac(1, 10)) THEN "Stable Shoreline"
    ELSE IF FLess(Frac(1, 10), net) /\ FLeq(net, Frac(1, 2)) THEN "Moderate Accretion"
    ELSE "Strong Accretion"

\* The table with -1.0 m taken into the severe band.
ClassifySevereFromMinusOne(net) ==
    IF FLeq(net, Num(-1)) THEN "Severe Erosion"
    ELSE IF FLess(Num(-1), net) /\ FLess(net, Frac(-1, 2)) THEN "Moderate Erosion"
    ELSE IF FLeq(Frac(-1, 2), net) /\ FLeq(net, Frac(1, 10)) THEN "Stable Shoreline"
    ELSE IF FLess(Frac(1, 10), net) /\ FLeq(net, Frac(1, 2)) THEN "Moderate Accretion"
    ELSE "Strong Accretion"

\* The classification of a net change.
Classify(net) ==
    IF FLess(net, Num(-1)) THEN "Severe Erosion"
    ELSE IF FLeq(Num(-1), net) /\ FLess(net, Frac(-1, 2)) THEN "Moderate Erosion"
    ELSE IF FLeq(Frac(-1, 2), net) /\ FLeq(net, Frac(1, 10)) THEN "Stable Shoreline"
    ELSE IF FLess(Frac(1, 10), net) /\ FLeq(net, Frac(1, 2)) THEN "Moderate Accretion"
    ELSE "Strong Accretion"

\* A share of exactly 60% left out.
EarlyWarningAboveSixty(slope, d) == slope.n < 0 /\ FLess(Frac(6, 10), NegativeShare(d))

\* bool((rate < 0) and ((diffs < 0).mean() >= 0.6))
EarlyWarning(slope, d) == slope.n < 0 /\ FLeq(Frac(6, 10), NegativeShare(d))

\* round(100 - beach_df.isna().mean().mean() * 100, 1)
DataQuality(frame) ==
    LET share(c) == Frac(Cardinality({r \in DOMAIN frame.rows : isna(frame.rows[r][c])}),
                         Len(frame.rows))
        missing_pct == FMean([c \in DOMAIN frame.columns |-> share(c)])
    IN  Round(FSub(Num(100), FMul(missing_pct, Num(100))), 1)

\* The rounded sum without the cap.
RiskIndexUncapped(slope, rsq, variability, consistency) ==
    Round(FAdd(FAdd(FMul(FAbs(slope), Num(RateWeight)),
                    FMul(FSub(Num(1), rsq), Num(FitWeight))),
               FAdd(FMul(variability, Num(VariabilityWeight)),
                    FMul(consistency, Num(ConsistencyWeight)))), 1)

\* min(100, round(abs(rate) * 30 + (1 - r2) * 20 + variability * 10 + consistency * 40, 1))
RiskIndex(slope, rsq, variability, consistency) ==
    FMin(Num(RiskCap),
         Round(FAdd(FAdd(FMul(FAbs(slope), Num(RateWeight)),
                         FMul(FSub(Num(1), rsq), Num(FitWeight))),
                    FAdd(FMul(variability, Num(VariabilityWeight)),
                         FMul(consistency, Num(ConsistencyWeight)))), 1))

\* The quotient without abs().
YearsSigned(limit, slope) ==
    IF slope.n < 0 THEN Number(FDiv(limit, slope)) ELSE Null

\* abs(threshold / rate) if rate < 0 else np.nan
YearsToThreshold(limit, slope) ==
    IF slope.n < 0 THEN Number(FAbs(FDiv(limit, slope))) ELSE Null

\* round(years_to_threshold, 1) if rate < 0 else "N/A"
YearsCell(years, slope) ==
    IF slope.n < 0 THEN Number(Round(years.x, 1)) ELSE Text("N/A")

\* ------------------------------------------------------------------ state
VARIABLES
    pc,                 \* where the script is
    uploaded_file,      \* <<>> or <<the sheet uploaded>>
    df,
    screen,             \* what has been shown, in order
    mode,
    beaches,
    selected_beaches,
    threshold,
    results,
    position,           \* the place in selected_beaches the loop is at
    beach_df,
    rate,
    r2,
    net_change,
    trend,
    early_warning,
    risk_index,
    years_to_threshold,
    summary_df

inputs == <<uploaded_file, df>>
widgets == <<mode, beaches, selected_beaches, threshold>>
analysis == <<rate, r2, net_change, trend, early_warning, risk_index, years_to_threshold>>
vars == <<pc, inputs, screen, widgets, results, position, beach_df, analysis, summary_df>>

\* A name not bound yet.
Unset == [n |-> 0, d |-> 0]
NoFrame == [columns |-> <<>>, rows |-> <<>>]

Shown(kind, what, names) == [kind |-> kind, what |-> what, names |-> names]

Single == "Single Beach (Detailed)"
Multiple == "Multiple Beaches (Comparison)"

\* The beach names of the sheets tried, in sorted() order.
Alphabet == <<"A", "B">>

Init ==
    /\ pc = "start"
    /\ uploaded_file = <<>>
    /\ df = NoFrame
    /\ screen = <<>>
    /\ mode = ""
    /\ beaches = <<>>
    /\ selected_beaches = <<>>
    /\ threshold = Unset
    /\ results = <<>>
    /\ position = 0
    /\ beach_df = NoFrame
    /\ rate = Unset
    /\ r2 = Unset
    /\ net_change = Unset
    /\ trend = ""
    /\ early_warning = FALSE
    /\ risk_index = Unset
    /\ years_to_threshold = Null
    /\ summary_df = <<>>

\* ---------------------------------------------------------------- actions
\* if not uploaded_file: st.warning(...); st.stop()
NoUpload ==
    /\ pc = "start"
    /\ screen' = Append(screen, Shown("warning", "Please upload an Excel file", <<>>))
    /\ pc' = "stopped"
    /\ UNCHANGED <<inputs, widgets, results, position, beach_df, analysis, summary_df>>

\* df = pd.read_excel(uploaded_file); df.columns = df.columns.str.strip()
ReadExcel ==
    /\ pc = "start"
    /\ \E sheet \in Sheets :
        /\ uploaded_file' = <<sheet>>
        /\ df' = [columns |-> [c \in DOMAIN sheet.columns |-> strip(sheet.columns[c])],
                  rows |-> sheet.rows]
    /\ pc' = "columns"
    /\ UNCHANGED <<screen, widgets, results, position, beach_df, analysis, summary_df>>

\* Only the first of the missing columns.
MissingFirst(frame) ==
    LET absent(c) == c \notin Range(frame.columns)
        all == SelectSeq(required_cols, absent)
    IN  IF all = <<>> THEN <<>> ELSE <<all[1]>>

\* missing = [c for c in required_cols if c not in df.columns]
Missing(frame) ==
    LET absent(c) == c \notin Range(frame.columns)
    IN  SelectSeq(required_cols, absent)

\* if missing: st.error(...); st.stop()
MissingColumns ==
    /\ pc = "columns"
    /\ Missing(df) # <<>>
    /\ screen' = Append(screen, Shown("error", "Missing required columns", Missing(df)))
    /\ pc' = "stopped"
    /\ UNCHANGED <<inputs, widgets, results, position, beach_df, analysis, summary_df>>

\* The three coercions, then df.dropna(subset=required_cols).
Clean(frame) == dropna(Coerce(frame), required_cols)

Cleaning ==
    /\ pc = "columns"
    /\ Missing(df) = <<>>
    /\ df' = Clean(df)
    /\ pc' = "cleaned"
    /\ UNCHANGED <<uploaded_file, screen, widgets, results, position, beach_df,
                   analysis, summary_df>>

\* if df.empty: st.error(...); st.stop()
EmptyStop ==
    /\ pc = "cleaned"
    /\ df.rows = <<>>
    /\ screen' = Append(screen, Shown("error", "No valid data after cleaning.", <<>>))
    /\ pc' = "stopped"
    /\ UNCHANGED <<inputs, widgets, results, position, beach_df, analysis, summary_df>>

\* sorted(df["Beach"].unique())
SortedBeaches(frame) ==
    LET present(b) == \E r \in DOMAIN frame.rows : At(frame, frame.rows[r], Col("Beach")) = Text(b)
    IN  SelectSeq(Alphabet, present)

\* What the selectbox or the multiselect can return.
Selections(m, names) ==
    IF m = Single THEN {<<b>> : b \in Range(names)}
    ELSE {s \in SeqsUpTo(Range(names), Len(names)) :
            \A j, k \in DOMAIN s : j # k => s[j] # s[k]}

\* The mode, the beaches and the threshold are read; results = [].
Select ==
    /\ pc = "cleaned"
    /\ df.rows # <<>>
    /\ \E m \in {Single, Multiple} :
        /\ mode' = m
        /\ selected_beaches' \in Selections(m, SortedBeaches(df))
    /\ beaches' = SortedBeaches(df)
    /\ threshold' \in Thresholds
    /\ results' = <<>>
    /\ position' = 1
    /\ pc' = "loop"
    /\ UNCHANGED <<inputs, screen, beach_df, analysis, summary_df>>

\* The length held against one less.
TooFewBelowTwo(frame) == Len(frame.rows) < MinPoints - 1

\* len(beach_df) < 3
TooFew(frame) == Len(frame.rows) < MinPoints

\* The beach the loop is at.
Beach == selected_beaches[position]
InLoop == pc = "loop" /\ position <= Len(selected_beaches)

\* break in the place of continue: the loop ends at the beach skipped.
SkipBreaks ==
    /\ pc = "loop" /\ position <= Len(selected_beaches)
    /\ \E sorted \in sort_values(OfBeach(df, selected_beaches[position])) :
        /\ Len(sorted.rows) < MinPoints
        /\ beach_df' = sorted
    /\ position' = Len(selected_beaches) + 1
    /\ UNCHANGED <<pc, inputs, screen, widgets, results, analysis, summary_df>>

\* if len(beach_df) < 3: continue
Skip ==
    /\ InLoop
    /\ \E sorted \in sort_values(OfBeach(df, Beach)) :
        /\ TooFew(sorted)
        /\ beach_df' = sorted
    /\ position' = position + 1
    /\ UNCHANGED <<pc, inputs, screen, widgets, results, analysis, summary_df>>

\* linregress raises: the run ends in a traceback.
RegressionError ==
    /\ InLoop
    /\ \E sorted \in sort_values(OfBeach(df, Beach)) :
        /\ ~TooFew(sorted)
        /\ AllIdentical(ElapsedYears(sorted))
        /\ beach_df' = Normalize(sorted)
    /\ screen' = Append(screen, Shown("exception", "ValueError", <<>>))
    /\ pc' = "raised"
    /\ UNCHANGED <<inputs, widgets, results, position, analysis, summary_df>>

\* The dict appended to results.
ResultRow(b, net, slope, rsq, label, risk, warning, quality, years) ==
    [Beach |-> b,
     Net_Change |-> Round(net, 2),
     Rate |-> Round(slope, 3),
     R2 |-> Round(rsq, 2),
     Trend |-> label,
     Risk_Index |-> risk,
     Early_Warning |-> IF warning THEN "Yes" ELSE "No",
     Data_Quality |-> quality,
     Years_to_Threshold |-> YearsCell(years, slope)]

\* One pass of the loop body for a beach with enough observations.
Analyze ==
    /\ InLoop
    /\ \E sorted \in sort_values(OfBeach(df, Beach)) :
        LET frame == Normalize(sorted)
            y == Values(frame, Col("Normalized_Shoreline"))
            x == ElapsedYears(frame)
            fit == linregress(x, y)
            diffs == diff(y)
            net == FSub(y[Len(y)], y[1])
            risk == RiskIndex(fit.slope, fit.r_squared, std(y), NegativeShare(diffs))
            years == YearsToThreshold(threshold, fit.slope)
        IN  /\ ~TooFew(sorted)
            /\ ~AllIdentical(x)
            /\ beach_df' = frame
            /\ rate' = fit.slope
            /\ r2' = fit.r_squared
            /\ net_change' = net
            /\ trend' = Classify(net)
            /\ early_warning' = EarlyWarning(fit.slope, diffs)
            /\ risk_index' = risk
            /\ years_to_threshold' = years
            /\ results' = Append(results,
                    ResultRow(Beach, net, fit.slope, fit.r_squared, Classify(net), risk,
                              EarlyWarning(fit.slope, diffs), DataQuality(frame), years))
    /\ screen' = IF mode = Single
                 THEN Append(screen, Shown("chart", "Shoreline Trend", <<Col(Beach)>>))
                 ELSE screen
    /\ position' = position + 1
    /\ UNCHANGED <<pc, inputs, widgets, summary_df>>

\* summary_df = pd.DataFrame(results); the table and the download button.
Summary ==
    /\ pc = "loop"
    /\ position > Len(selected_beaches)
    /\ summary_df' = results
    /\ screen' = screen \o <<Shown("dataframe", "Shoreline Change Summary", <<>>),
                            Shown("download_button", "shoreline_summary.csv", <<>>)>>
    /\ pc' = "interpretation"
    /\ UNCHANGED <<inputs, widgets, results, position, beach_df, analysis>>

\* The message of one summary row.
Advice(row) ==
    IF FLess(Num(HighRisk), row.Risk_Index)
    THEN Shown("error", "High erosion risk", <<Col(row.Beach)>>)
    ELSE IF FLess(Num(ModerateRisk), row.Risk_Index)
    THEN Shown("warning", "Moderate erosion trend", <<Col(row.Beach)>>)
    ELSE Shown("success", "Currently stable", <<Col(row.Beach)>>)

\* The interpretation of every row, the reference table and the methodology.
Interpretation ==
    /\ pc = "interpretation"
    /\ screen' = screen \o [k \in DOMAIN summary_df |-> Advice(summary_df[k])]
                        \o <<Shown("table", "Classification Reference", <<>>),
                             Shown("expander", "Methodology & Limitations", <<>>)>>
    /\ pc' = "done"
    /\ UNCHANGED <<inputs, widgets, results, position, beach_df, analysis, summary_df>>

Next ==
    \/ NoUpload
    \/ ReadExcel
    \/ MissingColumns
    \/ Cleaning
    \/ EmptyStop
    \/ Select
    \/ Skip
    \/ RegressionError
    \/ Analyze
    \/ Summary
    \/ Interpretation

Spec == Init /\ [][Next]_vars

\* ------------------------------------------------------------ properties
\* The last pass of the loop analysed beach_df: the names bound by the loop
\* body and the last row of results belong to it.
JustAnalyzed ==
    /\ pc \in {"loop", "interpretation", "done"}
    /\ beach_df.columns # <<>>
    /\ beach_df.columns[Len(beach_df.columns)] = Col("Normalized_Shoreline")

LastRow == results[Len(results)]
Normalized == Values(beach_df, Col("Normalized_Shoreline"))

\* The observations of beach b in df.
Observations(b) ==
    Cardinality({r \in DOMAIN df.rows : df.rows[r][2] = Text(b)})

\* The label the table of the claim gives a net change.
TableLabel(net) ==
    CASE net.n < -net.d -> "Severe Erosion"
      [] -net.d <= net.n /\ 2 * net.n < -net.d -> "Moderate Erosion"
      [] -net.d <= 2 * net.n /\ 10 * net.n <= net.d -> "Stable Shoreline"
      [] net.d < 10 * net.n /\ 2 * net.n <= net.d -> "Moderate Accretion"
      [] net.d < 2 * net.n -> "Strong Accretion"

\* C1: the trend label of every analysed beach is the one the five-row table
\* gives its net change, the last normalized value less the first.
C1_LabelFollowsTable ==
    /\ \A k \in DOMAIN results : results[k].Trend = TableLabel(results[k].Net_Change)
    /\ JustAnalyzed =>
        /\ net_change = FSub(Normalized[Len(Normalized)], Normalized[1])
        /\ trend = TableLabel(net_change)
        /\ LastRow.Trend = trend

\* A beach whose net change is exactly -0.5 m is labelled stable.
C1_Witness ==
    /\ JustAnalyzed
    /\ net_change = Frac(-1, 2)
    /\ LastRow.Trend = "Stable Shoreline"

\* C2 as stated: a net change of exactly -1.0 m is labelled Severe Erosion.
C2_AsStated ==
    JustAnalyzed /\ net_change = Num(-1) => trend = "Severe Erosion"

\* C2, amended: a net change of exactly -1.0 m is labelled Moderate Erosion;
\* Severe Erosion is the label of the net changes below -1.0 m only.
C2_MinusOneIsModerate ==
    /\ JustAnalyzed /\ net_change = Num(-1) =>
        trend = "Moderate Erosion" /\ LastRow.Trend = "Moderate Erosion"
    /\ \A k \in DOMAIN results :
        results[k].Trend = "Severe Erosion" <=> results[k].Net_Change.n < -results[k].Net_Change.d

C2_Witness ==
    JustAnalyzed /\ net_change = Num(-1) /\ LastRow.Net_Change = Num(-1)

\* C3: every row of the analysed series holds, in the new column, its
\* shoreline position less its tide level, and is otherwise a row of df as
\* it was.
C3_NormalizedIsDifference ==
    beach_df.columns # <<>> /\ beach_df.columns[Len(beach_df.columns)] = Col("Normalized_Shoreline") =>
        /\ SubSeq(beach_df.columns, 1, Len(beach_df.columns) - 1) = df.columns
        /\ \A r \in DOMAIN beach_df.rows :
            LET row == beach_df.rows[r]
                p == row[3].x
                t == row[4].x
                v == row[Len(row)]
            IN  /\ v.k = "number"
                /\ v.x.n * p.d * t.d = (p.n * t.d - t.n * p.d) * v.x.d
                /\ \E q \in DOMAIN df.rows : df.rows[q] = SubSeq(row, 1, Len(row) - 1)

C3_Witness ==
    /\ JustAnalyzed
    /\ \E r \in DOMAIN beach_df.rows :
        /\ beach_df.rows[r][3].x = Tenths(94)
        /\ beach_df.rows[r][4].x = Num(2)
        /\ beach_df.rows[r][Len(beach_df.rows[r])].x = Tenths(74)

\* The consecutive differences of the normalized series that are negative.
Falls == {k \in 1..(Len(Normalized) - 1) : FLess(Normalized[k + 1], Normalized[k])}

\* The sign of the least-squares slope is that of the sum, over the pairs
\* of observations, of the products of their date and value differences.
PairSum ==
    LET days == Values(beach_df, Col("Date"))
        prod(j, k) == FMul(FSub(days[k], days[j]), FSub(Normalized[k], Normalized[j]))
        n == Len(Normalized)
    IN  FSum([m \in 1..(n * n) |->
                LET j == ((m - 1) \div n) + 1
                    k == ((m - 1) % n) + 1
                IN  IF j < k THEN prod(j, k) ELSE Num(0)])

Unclamped ==
    FAdd(FAdd(FMul(FAbs(rate), Num(30)), FMul(FSub(Num(1), r2), Num(20))),
         FAdd(FMul(std(Normalized), Num(10)),
              FMul(Frac(Cardinality(Falls), Len(Normalized) - 1), Num(40))))

\* C5: the risk index of every summary row is a number of one decimal from
\* 0 to 100: the weighted sum rounded, or 100 when that is more.
C5_RiskIndexRange ==
    /\ \A k \in DOMAIN results :
        LET risk == results[k].Risk_Index
        IN  risk.n >= 0 /\ risk.n <= 100 * risk.d /\ 10 % risk.d = 0
    /\ JustAnalyzed =>
        /\ LastRow.Risk_Index = risk_index
        /\ FLeq(Num(100), Unclamped) => risk_index = Num(100)
        /\ FLess(Unclamped, Num(100)) =>
            FLeq(FAbs(FSub(risk_index, Unclamped)), Frac(1, 20))

\* A weighted sum above 100 capped to 100.
C5_Witness ==
    JustAnalyzed /\ FLess(Num(101), Unclamped) /\ LastRow.Risk_Index = Num(100)

\* C6: the years to the threshold are N/A when the rate is not negative and
\* |threshold / rate|, never negative, when it is, whatever the threshold.
C6_YearsToThreshold ==
    JustAnalyzed =>
        /\ rate.n >= 0 =>
            years_to_threshold = Null /\ LastRow.Years_to_Threshold = Text("N/A")
        /\ rate.n < 0 =>
            LET years == years_to_threshold.x
                shown == LastRow.Years_to_Threshold
            IN  /\ years_to_threshold.k = "number"
                /\ years.n >= 0
                /\ years.n * Abs(rate.n) * threshold.d = Abs(threshold.n) * rate.d * years.d
                /\ shown.k = "number"
                /\ FLeq(FAbs(FSub(shown.x, years)), Frac(1, 20))

\* A positive threshold and a negative rate.
C6_Witness ==
    /\ JustAnalyzed
    /\ threshold = Num(5)
    /\ rate.n < 0
    /\ years_to_threshold.x.n > 0

\* The sheet uploaded, and where it keeps the column called name.
Sheet == uploaded_file[1]
Has(name) == \E i \in DOMAIN Sheet.columns : Sheet.columns[i].text = name
Place(name) == CHOOSE i \in DOMAIN Sheet.columns : Sheet.columns[i].text = name

RequiredNames == <<"Date", "Beach", "Shoreline_Position", "Tide_Level">>
Lacking == SelectSeq(RequiredNames, LAMBDA name : ~Has(name))

\* A row of the sheet whose date parses, whose position and tide level are
\* numeric and whose beach is given.
Survives(row) ==
    /\ row[Place("Date")].k \in {"datetime", "datetext"}
    /\ row[Place("Beach")].k # "null"
    /\ row[Place("Shoreline_Position")].k \in {"number", "numtext"}
    /\ row[Place("Tide_Level")].k \in {"number", "numtext"}

Survivors == SelectSeq(Sheet.rows, Survives)

\* C7: a sheet lacking a required column halts the run on an error naming the
\* columns it lacks, before any cleaning; a sheet no row of which survives
\* cleaning halts it before a beach is chosen; a halted run has shown one
\* message, has analysed nothing and takes no further step.
C7_HaltsOnBadInput ==
    /\ uploaded_file # <<>> /\ pc # "columns" /\ Lacking # <<>> =>
        /\ pc = "stopped"
        /\ screen = <<Shown("error", "Missing required columns",
                            [k \in DOMAIN Lacking |-> Col(Lacking[k])])>>
        /\ df.rows = Sheet.rows
    /\ pc = "columns" /\ Lacking # <<>> => ~ENABLED Cleaning
    /\ uploaded_file # <<>> /\ pc # "columns" /\ Lacking = <<>> /\ Survivors = <<>> =>
        /\ pc \in {"cleaned", "stopped"}
        /\ pc = "cleaned" => ~ENABLED Select
        /\ pc = "stopped" => screen = <<Shown("error", "No valid data after cleaning.", <<>>)>>
    /\ pc = "stopped" =>
        /\ Len(screen) = 1
        /\ screen[1].kind \in {"warning", "error"}
        /\ results = <<>> /\ summary_df = <<>>
        /\ selected_beaches = <<>> /\ position = 0 /\ beach_df = NoFrame
        /\ ~ENABLED Next

\* A sheet without the Beach and Tide_Level columns, halted.
C7_Witness ==
    /\ pc = "stopped"
    /\ uploaded_file # <<>>
    /\ Has("Date") /\ Has("Shoreline_Position")
    /\ screen[1].names = <<Col("Beach"), Col("Tide_Level")>>

\* C8 as stated: in single-beach mode a beach with exactly 2 observations,
\* of two dates, is analysed and gets a summary row.
C8_AsStated ==
    /\ pc \in {"interpretation", "done"}
    /\ mode = Single
    /\ Observations(selected_beaches[1]) = 2
    /\ \E r, q \in DOMAIN df.rows :
        /\ df.rows[r][2] = Text(selected_beaches[1])
        /\ df.rows[q][2] = Text(selected_beaches[1])
        /\ df.rows[r][1] # df.rows[q][1]
    => \E k \in DOMAIN summary_df : summary_df[k].Beach = selected_beaches[1]

\* C8, amended: in either mode a beach is analysed only with at least 3
\* observations; in single-beach mode a beach with exactly 2 gets no row.
C8_ThreeInEitherMode ==
    /\ \A k \in DOMAIN results : Observations(results[k].Beach) >= 3
    /\ \A j \in DOMAIN selected_beaches :
        pc \in {"interpretation", "done"} /\ Observations(selected_beaches[j]) >= 3 =>
            \E k \in DOMAIN results : results[k].Beach = selected_beaches[j]
    /\ pc \in {"interpretation", "done"} /\ mode = Single
            /\ Observations(selected_beaches[1]) = 2 => summary_df = <<>>

\* The two observations of the example, normalized 8 and 7.4, in single-beach
\* mode: no summary row.
C8_Witness ==
    /\ pc = "done"
    /\ mode = Single
    /\ Len(df.rows) = 2
    /\ df.rows[1][3].x = Num(10) /\ df.rows[1][4].x = Num(2)
    /\ df.rows[2][3].x = Tenths(94) /\ df.rows[2][4].x = Num(2)
    /\ summary_df = <<>>

BeachesOf(rows) == [k \in DOMAIN rows |-> rows[k].Beach]
Enough(s) == SelectSeq(s, LAMBDA b : Observations(b) >= 3)

\* The rows so far are those of the beaches passed that have enough
\* observations, in the order selected; the summary is those rows.
C9_Rows ==
    /\ pc \in {"loop", "interpretation", "done"} =>
        BeachesOf(results) = Enough(SubSeq(selected_beaches, 1, position - 1))
    /\ pc \in {"interpretation", "done"} =>
        /\ position = Len(selected_beaches) + 1
        /\ summary_df = results

\* A step adds at most one row after those there; passing a beach with too
\* few observations keeps the loop going and the rows as they are.
C9_Step ==
    /\ \/ results' = results
       \/ /\ Len(results') = Len(results) + 1
          /\ SubSeq(results', 1, Len(results)) = results
    /\ InLoop /\ Observations(Beach) < 3 =>
        pc' = "loop" /\ position' = position + 1 /\ results' = results

\* C9: when the loop has finished the summary holds one row per selected
\* beach with enough observations, in the order selected, and none for a
\* beach skipped; a skip neither halts the run nor changes a row.
C9_SummaryRows == [](C9_Rows) /\ [][C9_Step]_vars

\* Two beaches selected, the first skipped, the second in the summary.
C9_Witness ==
    /\ pc = "done"
    /\ selected_beaches = <<"B", "A">>
    /\ Observations("B") = 2
    /\ BeachesOf(summary_df) = <<"A">>

\* The row cleaning makes of a surviving row of the sheet.
Kept(row) ==
    [i \in DOMAIN row |->
        CASE i = Place("Date") -> Datetime(row[i].x.n)
          [] i \in {Place("Shoreline_Position"), Place("Tide_Level")} -> Number(row[i].x)
          [] OTHER -> row[i]]

Cleaned ==
    \/ pc \in {"cleaned", "loop", "raised", "interpretation", "done"}
    \/ pc = "stopped" /\ screen[1].what = "No valid data after cleaning."

\* C10: after cleaning df holds the surviving rows of the sheet, in order and
\* with their values, and no other row; every observation of an analysed
\* series has its four fields.
C10_CleaningDropsExactly ==
    /\ Cleaned => df.rows = [k \in DOMAIN Survivors |-> Kept(Survivors[k])]
    /\ \A r \in DOMAIN beach_df.rows : \A c \in 1..4 : ~isna(beach_df.rows[r][c])

\* Three rows, one kept: its date and position were strings, its note is
\* missing.
C10_Witness ==
    /\ pc = "cleaned"
    /\ Len(Sheet.rows) = 3
    /\ Len(df.rows) = 1
    /\ Sheet.rows[2][1].k = "datetext" /\ Sheet.rows[2][3].k = "numtext"
    /\ df.rows[1][1] = Datetime(1461) /\ df.rows[1][3] = Number(Tenths(94))
    /\ isna(df.rows[1][5])

====
